---- MODULE Spec2Model ----
(***************************************************************************)
(* The ATH monitor of Axe-Webhooks: watcher/watcher.py and web/app.py.     *)
(*                                                                         *)
(* main() starts one daemon thread per chain, each running monitor_chain:  *)
(* load the chain's History file once, then forever: reload the            *)
(* configuration, fetch the worker list and the pool summary, evaluate     *)
(* every worker record against last_bestever, post an announcement for     *)
(* every increase, rewrite the History file when something changed, sleep. *)
(*                                                                         *)
(* Beside it runs the web app, web/app.py, whose /test handler loads the   *)
(* configuration with a load_config of its own, polls the chains and posts *)
(* one status message.                                                     *)
(*                                                                         *)
(* Python values, JSON documents and file contents are tagged records.     *)
(* The remote pool, the configuration document and the outcome of every    *)
(* I/O call are inputs, chosen with \E from small sets.                    *)
(***************************************************************************)
EXTENDS Integers, Sequences, FiniteSets, TLC

VARIABLES
    pc,             \* per chain: where the thread stands in monitor_chain
    last_bestever,  \* per chain: the in-memory History (a Python value)
    files,          \* the /data directory: path -> file content
    base_url,       \* per chain: cfg[base_key] of the current cycle
    webhook,        \* per chain: cfg["discord_webhook"] of the current cycle
    todo,           \* per chain: records of `details` not yet iterated
    changed,        \* per chain: the cycle's `changed` flag
    fetches,        \* per chain: get_json calls made in the current cycle
    err,            \* per chain: the current cycle ended in the outer except
    last,           \* per chain: what the latest iteration of the for loop did
    log,            \* per chain: the announcements attempted in the current cycle
    elem,           \* per chain: the `w` of the latest iteration, where observed
    web,            \* the web app: ADMIN_PASSWORD and what its latest /test request did
    wfail           \* per chain: a History write of this thread has failed

vars == <<pc, last_bestever, files, base_url, webhook, todo, changed,
          fetches, err, last, log, elem, web, wfail>>

(***************************************************************************)
(* Bounds of the model.                                                    *)
(***************************************************************************)
MaxShare == 2       \* best-share values reported by the pool: 0..MaxShare
MaxDetails == 2     \* length of a fetched workers_details list
MaxKeys == 2        \* candidate keys present in one worker record
NumChains == 2      \* watcher threads running side by side in SpecChains

(***************************************************************************)
(* Python values.                                                          *)
(***************************************************************************)
PyNone == [t |-> "NoneType"]
PyList == [t |-> "list"]
PyInt(n) == [t |-> "int", i |-> n]
PyStr(s) == [t |-> "str", s |-> s]
PyDict(m) == [t |-> "dict", m |-> m]

EmptyMap == [k \in {} |-> PyNone]

IsDict(x) == x.t = "dict"

\* dict.get(k): the value, or None when the key is missing
DictGet(d, k) == IF k \in DOMAIN d.m THEN d.m[k] ELSE PyNone

\* d[k] = x
DictSet(d, k, x) ==
    PyDict([j \in (DOMAIN d.m) \cup {k} |-> IF j = k THEN x ELSE d.m[j]])

\* truth value of a Python object, as `or` tests it
Truthy(x) ==
    CASE x.t = "NoneType" -> FALSE
      [] x.t = "int" -> x.i # 0
      [] x.t = "str" -> x.s # ""
      [] x.t = "dict" -> DOMAIN x.m # {}
      [] OTHER -> TRUE

PyOr(a, b) == IF Truthy(a) THEN a ELSE b

\* decimal numerals, for int(str)
Numerals == <<"0", "1", "2", "3", "4", "5", "6", "7", "8", "9">>

IsNumeral(s) == \E i \in 1..Len(Numerals) : Numerals[i] = s

\* int(x) succeeds
IntOk(x) ==
    CASE x.t = "int" -> TRUE
      [] x.t = "str" -> IsNumeral(x.s)
      [] OTHER -> FALSE

\* int(x), where it succeeds
IntOf(x) ==
    IF x.t = "int" THEN x.i
    ELSE (CHOOSE i \in 1..Len(Numerals) : Numerals[i] = x.s) - 1

(***************************************************************************)
(* JSON documents and file contents.                                       *)
(***************************************************************************)
JNull == [j |-> "null"]
JArray == [j |-> "array"]
JNumber(n) == [j |-> "number", n |-> n]
JString(s) == [j |-> "string", s |-> s]
JObject(m) == [j |-> "object", m |-> m]

Absent == [f |-> "absent"]          \* no such file
Garbage == [f |-> "garbage"]        \* bytes that are not JSON
Truncated == [f |-> "truncated"]    \* opened for writing, not yet complete
Document(d) == [f |-> "json", doc |-> d]

\* json.load / r.json(): what a JSON value decodes to
RECURSIVE JsonToPy(_)
JsonToPy(d) ==
    CASE d.j = "null" -> PyNone
      [] d.j = "array" -> PyList
      [] d.j = "number" -> PyInt(d.n)
      [] d.j = "string" -> PyStr(d.s)
      [] OTHER -> PyDict([k \in DOMAIN d.m |-> JsonToPy(d.m[k])])

\* json.dump: what a Python value encodes to
RECURSIVE PyToJson(_)
PyToJson(x) ==
    CASE x.t = "NoneType" -> JNull
      [] x.t = "list" -> JArray
      [] x.t = "int" -> JNumber(x.i)
      [] x.t = "str" -> JString(x.s)
      [] OTHER -> JObject([k \in DOMAIN x.m |-> PyToJson(x.m[k])])

(***************************************************************************)
(* Strings.  A string is an atom; Chars gives the characters of the        *)
(* strings that str.strip and str.rstrip are applied to in the model.      *)
(***************************************************************************)
\* the host address get_host_ip returns when it detects none
HostIp == "192.168.1.1"

\* the base URLs the web app takes as defaults
DefaultBase(k) ==
    CASE k = "bch_base" -> "http://" \o HostIp \o ":21212"
      [] k = "xec_base" -> "http://" \o HostIp \o ":21218"
      [] k = "btc_base" -> "http://" \o HostIp \o ":21215"
      [] k = "dbg_base" -> "http://" \o HostIp \o ":21213"

DefaultBases ==
    {DefaultBase(k) : k \in {"bch_base", "xec_base", "btc_base", "dbg_base"}}

Strings ==
    {"", " ", "/", "/ ", "/ /", "u", "u/", " u ", "h", "w1", "w2", "w2 ", "1"}
    \cup DefaultBases

Chars(s) ==
    CASE s = "" -> <<>>
      [] s = " " -> <<" ">>
      [] s = "/" -> <<"/">>
      [] s = "/ " -> <<"/", " ">>
      [] s = "/ /" -> <<"/", " ", "/">>
      [] s = "u" -> <<"u">>
      [] s = "u/" -> <<"u", "/">>
      [] s = " u " -> <<" ", "u", " ">>
      [] s = "h" -> <<"h">>
      [] s = "w1" -> <<"w", "1">>
      [] s = "w2" -> <<"w", "2">>
      [] s = "w2 " -> <<"w", "2", " ">>
      [] s = "1" -> <<"1">>
      [] s \in DefaultBases -> <<s>>   \* one piece: no blank or slash at its ends

StrOfChars(q) == CHOOSE s \in Strings : Chars(s) = q

RECURSIVE LStripChars(_, _)
LStripChars(q, ch) ==
    IF q # <<>> /\ Head(q) = ch THEN LStripChars(Tail(q), ch) ELSE q

RECURSIVE RStripChars(_, _)
RStripChars(q, ch) ==
    IF q # <<>> /\ q[Len(q)] = ch
    THEN RStripChars(SubSeq(q, 1, Len(q) - 1), ch)
    ELSE q

\* s.strip()
Strip(s) == StrOfChars(RStripChars(LStripChars(Chars(s), " "), " "))

\* s.rstrip("/")
RStripSlash(s) == StrOfChars(RStripChars(Chars(s), "/"))

\* str(x) of a decoded value: a string as it is, a number in digits
PyStrOf(x) == IF x.t = "int" THEN ToString(x.i) ELSE x.s

(***************************************************************************)
(* Configuration (load_config).                                            *)
(***************************************************************************)
BaseKeys == {"bch_base", "xec_base", "btc_base", "dbg_base"}
ConfigKeys == BaseKeys \cup {"proxy_token", "discord_webhook"}

\* with open(...) as f: json.load(f); raises when absent or not JSON
CanDecode(content) == content.f = "json"

load_config(content) ==
    LET data == JsonToPy(content.doc)
        read == [k \in ConfigKeys |->
                   IF CanDecode(content) /\ IsDict(data)
                      /\ k \in DOMAIN data.m /\ data.m[k] # PyNone
                   THEN Strip(PyStrOf(data.m[k]))
                   ELSE ""]
    IN  [k \in ConfigKeys |->
           IF k \in BaseKeys THEN RStripSlash(read[k]) ELSE read[k]]

\* (variant: the check for a missing base URL is left out)
SkipNever(url) == FALSE

\* `not base_url or base_url.strip() == ""`
SkipCycle(url) == url = "" \/ Strip(url) = ""

(***************************************************************************)
(* Chains and their files (main, monitor_chain).                           *)
(***************************************************************************)
ChainTags == <<"BCH", "XEC", "BTC", "DBG">>

\* the base_key argument main passes with each chain
BaseKey(chain) ==
    CASE chain = "BCH" -> "bch_base"
      [] chain = "XEC" -> "xec_base"
      [] chain = "BTC" -> "btc_base"
      [] chain = "DBG" -> "dbg_base"

\* chain.lower()
Lower(chain) ==
    CASE chain = "BCH" -> "bch"
      [] chain = "XEC" -> "xec"
      [] chain = "BTC" -> "btc"
      [] chain = "DBG" -> "dbg"

\* (variant: one History file for all chains)
StateFileShared(chain) == "/data/state.json"

\* state_file = f"/data/{chain.lower()}_state.json"
StateFile(chain) == "/data/" \o Lower(chain) \o "_state.json"

\* (variant: the History file is written in place)
TmpInPlace(chain) == StateFile(chain)

\* state_file + ".tmp"
TmpFile(chain) == StateFile(chain) \o ".tmp"

\* the History loaded at thread start: the try block after `last_bestever = {}`
LoadHistory(content) ==
    IF ~CanDecode(content) THEN PyDict(EmptyMap)
    ELSE LET d == JsonToPy(content.doc)
         IN  IF IsDict(d) THEN
               IF "last_bestever" \in DOMAIN d.m THEN d.m["last_bestever"]
               ELSE PyDict(EmptyMap)
             ELSE PyDict(EmptyMap)

\* (variant: the mapping is written without its "last_bestever" wrapper)
DumpBare(lb) == Document(PyToJson(lb))

\* json.dump({"last_bestever": last_bestever}, f)
DumpHistory(lb) == Document(PyToJson(PyDict([k \in {"last_bestever"} |-> lb])))

(***************************************************************************)
(* One worker record of the for loop of monitor_chain.                     *)
(***************************************************************************)
CandidateKeys ==
    <<"best_share_since_block", "bestshare_since_block",
      "bestever_since_block", "bestever">>

\* raw_name = str(w.get("workername", "")).strip()
RawName(w) ==
    IF "workername" \in DOMAIN w.m THEN Strip(PyStrOf(w.m["workername"]))
    ELSE ""

\* bestever = w.get(k1) or w.get(k2) or w.get(k3) or w.get(k4)
BestEver(w) ==
    PyOr(DictGet(w, CandidateKeys[1]),
         PyOr(DictGet(w, CandidateKeys[2]),
              PyOr(DictGet(w, CandidateKeys[3]),
                   DictGet(w, CandidateKeys[4]))))

\* (variant: an equal value counts as an increase)
IsIncreaseOrEqual(v, prev) == v >= IntOf(prev)

\* (variant: any different value is stored and announced)
IsDifferent(v, prev) == v # IntOf(prev)

\* `if bestever_int > int(prev)`
IsIncrease(v, prev) == v > IntOf(prev)

\* (variant: the POST is made without looking at the webhook)
discord_post_unchecked(hook, post) == post

\* discord_post_ath: returns at once without a webhook; otherwise one POST,
\* whose outcome `post` is "sent" or "failed" (raise_for_status, timeout)
discord_post_ath(hook, post) == IF hook = "" THEN "noop" ELSE post

Attempts == {"noop", "sent", "failed"}

\* what one iteration did: the worker, the value it read, the value it
\* found stored, and its act: "skip", "raise", "baseline", "none" or an attempt
Entry(name, val, prev, act) ==
    [name |-> name, val |-> val, prev |-> prev, act |-> act]

NoEntry == Entry("", PyNone, PyNone, "")

\* the outcome of one iteration: the new last_bestever, whether `changed`
\* was set, whether an exception left the loop, and the log entry
Outcome(lb, chg, raised, entry) ==
    [lb |-> lb, chg |-> chg, raised |-> raised, entry |-> entry]

\* (variant: the first sighting is announced as well)
TrackNewAnnounced(lb, name, v) ==
    [lb |-> DictSet(lb, name, PyInt(v)), chg |-> TRUE, raised |-> FALSE,
     entry |-> [name |-> name, val |-> PyInt(v), prev |-> PyNone, act |-> "sent"]]

\* a prev of None: the worker is new, record its baseline
TrackNew(lb, name, v) ==
    Outcome(DictSet(lb, name, PyInt(v)), TRUE, FALSE,
            Entry(name, PyInt(v), PyNone, "baseline"))

\* (variant: a failed send leaves the stored value as it was)
CompareRollback(lb, name, v, prev, hook, post) ==
    IF ~IntOk(prev) THEN
        Outcome(lb, FALSE, TRUE, Entry(name, PyInt(v), prev, "raise"))
    ELSE IF IsIncrease(v, prev) THEN
        Outcome(IF discord_post_ath(hook, post) = "failed" THEN lb
                ELSE DictSet(lb, name, PyInt(v)),
                discord_post_ath(hook, post) # "failed", FALSE,
                Entry(name, PyInt(v), prev, discord_post_ath(hook, post)))
    ELSE
        Outcome(lb, FALSE, FALSE, Entry(name, PyInt(v), prev, "none"))

\* (variant: the latest value is stored, not the greatest)
CompareStoresLatest(lb, name, v, prev, hook, post) ==
    IF ~IntOk(prev) THEN
        Outcome(lb, FALSE, TRUE, Entry(name, PyInt(v), prev, "raise"))
    ELSE IF IsIncrease(v, prev) THEN
        Outcome(DictSet(lb, name, PyInt(v)), TRUE, FALSE,
                Entry(name, PyInt(v), prev, discord_post_ath(hook, post)))
    ELSE
        Outcome(DictSet(lb, name, PyInt(v)), v # IntOf(prev), FALSE,
                Entry(name, PyInt(v), prev, "none"))

\* (variant: a failed send is not caught and ends the loop)
CompareSendRaises(lb, name, v, prev, hook, post) ==
    IF ~IntOk(prev) THEN
        Outcome(lb, FALSE, TRUE, Entry(name, PyInt(v), prev, "raise"))
    ELSE IF IsIncrease(v, prev) THEN
        Outcome(IF discord_post_ath(hook, post) = "failed" THEN lb
                ELSE DictSet(lb, name, PyInt(v)),
                discord_post_ath(hook, post) # "failed",
                discord_post_ath(hook, post) = "failed",
                Entry(name, PyInt(v), prev, discord_post_ath(hook, post)))
    ELSE
        Outcome(lb, FALSE, FALSE, Entry(name, PyInt(v), prev, "none"))

\* a stored prev: announce and store when v is greater
Compare(lb, name, v, prev, hook, post) ==
    IF ~IntOk(prev) THEN
        Outcome(lb, FALSE, TRUE, Entry(name, PyInt(v), prev, "raise"))
    ELSE IF IsIncrease(v, prev) THEN
        Outcome(DictSet(lb, name, PyInt(v)), TRUE, FALSE,
                Entry(name, PyInt(v), prev, discord_post_ath(hook, post)))
    ELSE
        Outcome(lb, FALSE, FALSE, Entry(name, PyInt(v), prev, "none"))

\* what the head of the loop body reads from the element w: whether it
\* has .get at all, raw_name and bestever
Extract(w) ==
    IF IsDict(w) THEN [isdict |-> TRUE, name |-> RawName(w), best |-> BestEver(w)]
    ELSE [isdict |-> FALSE, name |-> "", best |-> PyNone]

\* the body of `for w in details`, for an element read as x
Iterate(lb, x, hook, post) ==
    IF ~x.isdict THEN
        \* w.get raises AttributeError
        Outcome(lb, FALSE, TRUE, Entry("", PyNone, PyNone, "raise"))
    ELSE IF x.name = "" THEN
        Outcome(lb, FALSE, FALSE, Entry("", PyNone, PyNone, "skip"))
    ELSE IF x.best = PyNone \/ ~IntOk(x.best) THEN
        Outcome(lb, FALSE, FALSE, Entry(x.name, x.best, PyNone, "skip"))
    ELSE IF ~IsDict(lb) THEN
        \* last_bestever.get raises AttributeError
        Outcome(lb, FALSE, TRUE,
                Entry(x.name, PyInt(IntOf(x.best)), PyNone, "raise"))
    ELSE IF DictGet(lb, x.name) = PyNone THEN
        TrackNew(lb, x.name, IntOf(x.best))
    ELSE
        Compare(lb, x.name, IntOf(x.best), DictGet(lb, x.name), hook, post)

(***************************************************************************)
(* The environment: what the pool, the configuration document and the     *)
(* History file found at start can be.                                     *)
(***************************************************************************)
KeySets == {K \in SUBSET (1..Len(CandidateKeys)) : Cardinality(K) <= MaxKeys}

\* a worker object with the candidate keys K, valued by f, named nm
WorkerObject(hasName, nm, K, f) ==
    PyDict([k \in {CandidateKeys[i] : i \in K}
                    \cup (IF hasName THEN {"workername"} ELSE {}) |->
              IF k = "workername" THEN PyStr(nm)
              ELSE f[CHOOSE i \in K : CandidateKeys[i] = k]])

\* the elements a workers_details list can hold: worker objects, and an
\* element that is not an object
Elements(names, values) ==
    {PyStr("abc"), WorkerObject(FALSE, "", {}, EmptyMap),
     WorkerObject(TRUE, " ", {}, EmptyMap)}
    \cup UNION {{WorkerObject(TRUE, nm, K, f) : nm \in names, f \in [K -> values]} :
                K \in KeySets}

PoolNames == {"w1", "w2 "}
PoolValues == {PyInt(i) : i \in 0..MaxShare} \cup {PyStr("abc")}

SmallNames == {"w1"}
SmallValues == {PyInt(i) : i \in {0, 1}}

\* the elements as the loop body reads them
PoolReadings ==
    {Extract(w) : w \in Elements(SmallNames, PoolValues)
                         \cup Elements(PoolNames \ SmallNames, SmallValues)}
SmallReadings == {Extract(w) : w \in Elements(SmallNames, SmallValues)}

\* a pool of one well-formed worker reporting under the key "bestever"
TinyReadings ==
    {Extract(WorkerObject(TRUE, "w1", {Len(CandidateKeys)}, f)) :
        f \in [{Len(CandidateKeys)} -> SmallValues]}

\* the configuration documents chain c can meet
ConfigObjects(chain) ==
    {[k \in K |-> IF k = "discord_webhook" THEN h ELSE b] :
        K \in SUBSET {BaseKey(chain), "discord_webhook"},
        b \in {JNull, JString(""), JString("u/"), JString("/ /"), JString(" u ")},
        h \in {JString(" "), JString("h")}}

ConfigDocs(chain) ==
    {Absent, Garbage, Document(JArray)}
    \cup {Document(JObject(m)) : m \in ConfigObjects(chain)}

\* what load_config returns to each chain's watcher
Configs ==
    [chain \in {ChainTags[i] : i \in 1..Len(ChainTags)} |->
        {load_config(doc) : doc \in ConfigDocs(chain)}]

\* the same with two documents only: none, and one naming a base URL and a
\* webhook
TinyConfigs ==
    [chain \in {ChainTags[i] : i \in 1..Len(ChainTags)} |->
        {load_config(doc) :
           doc \in {Absent,
                    Document(JObject([k \in {BaseKey(chain), "discord_webhook"} |->
                       IF k = "discord_webhook" THEN JString("h")
                       ELSE JString("u/")]))}}]

\* {"last_bestever": x}
HistoryDoc(x) == Document(JObject([k \in {"last_bestever"} |-> x]))

Mapping1(a) == JObject([k \in {"w1"} |-> a])
Mapping2(a, b) == JObject([k \in {"w1", "w2"} |-> IF k = "w1" THEN a ELSE b])

\* History files a watcher can find at start: none, one it wrote before,
\* and files damaged or edited from outside
HistoryFiles ==
    {Absent, Garbage, Document(JArray), Document(JObject(EmptyMap)),
     HistoryDoc(JNull), HistoryDoc(JArray), HistoryDoc(JObject(EmptyMap)),
     HistoryDoc(Mapping1(JNumber(1))),
     HistoryDoc(Mapping2(JNumber(1), JNumber(0))),
     HistoryDoc(Mapping1(JString("abc"))),
     HistoryDoc(Mapping1(JString("1"))),
     HistoryDoc(Mapping1(JNull))}

CleanFiles == {Absent, HistoryDoc(Mapping1(JNumber(1)))}

(***************************************************************************)
(* The watcher thread: monitor_chain(chain, base_key).                     *)
(***************************************************************************)
\* (variant: the exception is not caught and ends the thread)
ExceptUncaught == "exit"

\* where `except Exception as e: print(...)` leaves the thread: at the
\* time.sleep that ends the iteration
ExceptTarget == "sleep"

\* the outer except clause
Raise(c) ==
    /\ pc' = [pc EXCEPT ![c] = ExceptTarget]
    /\ err' = [err EXCEPT ![c] = TRUE]
    /\ todo' = [todo EXCEPT ![c] = 0]

\* (variant: the History is not written after the loop)
AfterLoopNoWrite(chg) == "sleep"

\* after the for loop: `if changed:` opens the temporary file
AfterLoop(chg) == IF chg THEN "open" ELSE "sleep"

\* thread start: read the History file
Start(c) ==
    /\ pc[c] = "start"
    /\ last_bestever' =
           [last_bestever EXCEPT ![c] = LoadHistory(files[StateFile(c)])]
    /\ pc' = [pc EXCEPT ![c] = "poll"]
    /\ UNCHANGED <<files, base_url, webhook, todo, changed, fetches, err, last, log, elem, web, wfail>>

\* top of the loop with no base URL configured: sleep and continue
PollSkip(c, configs) ==
    /\ pc[c] = "poll"
    /\ \E cfg \in configs[c] :
          /\ SkipCycle(cfg[BaseKey(c)])
          /\ base_url' = [base_url EXCEPT ![c] = cfg[BaseKey(c)]]
          /\ webhook' = [webhook EXCEPT ![c] = cfg["discord_webhook"]]
    /\ pc' = [pc EXCEPT ![c] = "sleep"]
    /\ UNCHANGED <<last_bestever, files, todo, changed, fetches, err, last, log, elem, web, wfail>>

\* what the two get_json calls and `details` come to: a failed fetch, a
\* workers_details that has no len(), one that is no list, a list of n
FetchResults(lengths) ==
    {[kind |-> k, n |-> 0] :
        k \in {"workers_failed", "pool_failed", "unsized", "not_a_list"}}
    \cup {[kind |-> "list", n |-> i] : i \in lengths}

\* top of the loop with a base URL: fetch the workers and the pool
PollFetch(c, configs, lengths) ==
    /\ pc[c] = "poll"
    /\ \E cfg \in configs[c] :
          /\ ~SkipCycle(cfg[BaseKey(c)])
          /\ base_url' = [base_url EXCEPT ![c] = cfg[BaseKey(c)]]
          /\ webhook' = [webhook EXCEPT ![c] = cfg["discord_webhook"]]
    /\ \E r \in FetchResults(lengths) :
          IF r.kind = "workers_failed" THEN
              \* get_json(workers_url) raises
              /\ fetches' = [fetches EXCEPT ![c] = 1]
              /\ Raise(c)
          ELSE IF r.kind \in {"pool_failed", "unsized"} THEN
              \* get_json(pool_url) raises, or len() of workers_details does
              /\ fetches' = [fetches EXCEPT ![c] = 2]
              /\ Raise(c)
          ELSE
              \* details = [] unless workers_details is a list
              /\ fetches' = [fetches EXCEPT ![c] = 2]
              /\ todo' = [todo EXCEPT ![c] = r.n]
              /\ pc' = [pc EXCEPT ![c] =
                          IF r.n = 0 THEN AfterLoop(FALSE) ELSE "eval"]
              /\ UNCHANGED err
    /\ UNCHANGED <<last_bestever, files, changed, last, log, elem, web, wfail>>

\* the element itself, where the reading carries it
Observed(x) == IF "w" \in DOMAIN x THEN x.w ELSE PyNone

\* one iteration of `for w in details`, the element drawn from `readings`
EvalRecord(c, readings) ==
    /\ pc[c] = "eval"
    /\ todo[c] > 0
    /\ \E x \in readings, post \in {"sent", "failed"} :
          LET o == Iterate(last_bestever[c], x, webhook[c], post)
              chg == changed[c] \/ o.chg
          IN
          /\ last_bestever' = [last_bestever EXCEPT ![c] = o.lb]
          /\ changed' = [changed EXCEPT ![c] = chg]
          /\ last' = [last EXCEPT ![c] = o.entry]
          /\ log' = [log EXCEPT ![c] =
                       IF o.entry.act \in Attempts THEN Append(@, o.entry) ELSE @]
          /\ elem' = [elem EXCEPT ![c] = Observed(x)]
          /\ IF o.raised THEN Raise(c)
             ELSE /\ todo' = [todo EXCEPT ![c] = @ - 1]
                  /\ pc' = [pc EXCEPT ![c] =
                              IF todo[c] = 1 THEN AfterLoop(chg) ELSE "eval"]
                  /\ UNCHANGED err
    /\ UNCHANGED <<files, base_url, webhook, fetches, web, wfail>>

\* open(state_file + ".tmp", "w")
OpenTmp(c, io) ==
    /\ pc[c] = "open"
    /\ \E ok \in io :
          IF ok THEN /\ files' = [files EXCEPT ![TmpFile(c)] = Truncated]
                     /\ pc' = [pc EXCEPT ![c] = "dump"]
                     /\ UNCHANGED <<err, todo, wfail>>
          ELSE /\ Raise(c)
               /\ wfail' = [wfail EXCEPT ![c] = TRUE]
               /\ UNCHANGED files
    /\ UNCHANGED <<last_bestever, base_url, webhook, changed, fetches, last, log, elem, web>>

\* json.dump(...) and the close of the temporary file
DumpTmp(c, io) ==
    /\ pc[c] = "dump"
    /\ \E ok \in io :
          IF ok THEN /\ files' = [files EXCEPT
                                    ![TmpFile(c)] = DumpHistory(last_bestever[c])]
                     /\ pc' = [pc EXCEPT ![c] = "replace"]
                     /\ UNCHANGED <<err, todo, wfail>>
          ELSE /\ Raise(c)
               /\ wfail' = [wfail EXCEPT ![c] = TRUE]
               /\ UNCHANGED files
    /\ UNCHANGED <<last_bestever, base_url, webhook, changed, fetches, last, log, elem, web>>

\* os.replace(state_file + ".tmp", state_file)
Replace(c, io) ==
    /\ pc[c] = "replace"
    /\ \E ok \in io :
          IF ok THEN /\ files' = [files EXCEPT
                                    ![StateFile(c)] = files[TmpFile(c)],
                                    ![TmpFile(c)] = Absent]
                     /\ pc' = [pc EXCEPT ![c] = "sleep"]
                     /\ UNCHANGED <<err, todo, wfail>>
          ELSE /\ Raise(c)
               /\ wfail' = [wfail EXCEPT ![c] = TRUE]
               /\ UNCHANGED files
    /\ UNCHANGED <<last_bestever, base_url, webhook, changed, fetches, last, log, elem, web>>

\* time.sleep(POLL_SECONDS) returns and the next iteration begins: the
\* locals of the last one are dead
Sleep(c) ==
    /\ pc[c] = "sleep"
    /\ pc' = [pc EXCEPT ![c] = "poll"]
    /\ base_url' = [base_url EXCEPT ![c] = ""]
    /\ webhook' = [webhook EXCEPT ![c] = ""]
    /\ changed' = [changed EXCEPT ![c] = FALSE]
    /\ fetches' = [fetches EXCEPT ![c] = 0]
    /\ err' = [err EXCEPT ![c] = FALSE]
    /\ last' = [last EXCEPT ![c] = NoEntry]
    /\ log' = [log EXCEPT ![c] = <<>>]
    /\ elem' = [elem EXCEPT ![c] = PyNone]
    /\ UNCHANGED <<last_bestever, files, todo, web, wfail>>

\* one step of thread c in the environment env: the configurations it can
\* load, the readings the pool can give, the lengths of its lists, and
\* whether file operations can fail
Step(c, env) ==
    \/ Start(c)
    \/ PollSkip(c, env.configs)
    \/ PollFetch(c, env.configs, env.lengths)
    \/ EvalRecord(c, env.readings)
    \/ OpenTmp(c, env.io)
    \/ DumpTmp(c, env.io)
    \/ Replace(c, env.io)
    \/ Sleep(c)

(***************************************************************************)
(* The web app (web/app.py): its load_config and the /test handler.        *)
(***************************************************************************)
\* load_config of web/app.py: the document's value where it is truthy,
\* else the default: a URL on the host for a base, "" for the other keys
web_load_config(content) ==
    LET data == JsonToPy(content.doc)
    IN  [k \in ConfigKeys |->
           IF CanDecode(content) /\ IsDict(data)
              /\ k \in DOMAIN data.m /\ Truthy(data.m[k])
           THEN data.m[k]
           ELSE IF k \in BaseKeys THEN PyStr(DefaultBase(k)) ELSE PyStr("")]

\* check_password(pw) with ADMIN_PASSWORD = admin
check_password(admin, pw) == admin = "" \/ pw = admin

\* the loop `for chain, base_url in chains` up to the i-th chain: the GETs
\* made and the fields collected; reach[c] is how chain c answers
RECURSIVE Polled(_, _, _)
Polled(cfg, reach, i) ==
    IF i = 0 THEN [gets |-> <<>>, fields |-> <<>>]
    ELSE LET before == Polled(cfg, reach, i - 1)
             c == ChainTags[i]
         IN  IF Strip(cfg[BaseKey(c)].s) = "" THEN before
             ELSE [gets |->
                     before.gets \o
                       (IF reach[c] = "pool_failed"
                        THEN <<[chain |-> c, path |-> "/api/pool"]>>
                        ELSE <<[chain |-> c, path |-> "/api/pool"],
                               [chain |-> c, path |-> "/api/pool/workers"]>>),
                   fields |->
                     Append(before.fields,
                            [chain |-> c,
                             state |-> IF reach[c] = "ok" THEN "ok" ELSE "offline"])]

\* what one /test request did: the HTTP status it answered, the
\* configuration it loaded, its GETs, the fields of its POST, its POSTs
Response(status, cfg, gets, fields, posts) ==
    [status |-> status, cfg |-> cfg, gets |-> gets, fields |-> fields,
     posts |-> posts]

NoConfig == [k \in ConfigKeys |-> PyNone]

\* test_webhook(): the whole handler
test_webhook(admin, pw, doc, reach, post) ==
    LET cfg == web_load_config(doc)
        polled == Polled(cfg, reach, Len(ChainTags))
    IN  IF ~check_password(admin, pw) THEN
            Response(401, NoConfig, <<>>, <<>>, 0)
        ELSE IF cfg["discord_webhook"].t # "str" THEN
            \* .strip() of a value that is no string: an unhandled exception
            Response(500, cfg, <<>>, <<>>, 0)
        ELSE IF Strip(cfg["discord_webhook"].s) = "" THEN
            Response(400, cfg, <<>>, <<>>, 0)
        ELSE IF \E k \in ConfigKeys : cfg[k].t # "str" THEN
            Response(500, cfg, <<>>, <<>>, 0)
        ELSE IF polled.fields = <<>> THEN
            Response(400, cfg, polled.gets, <<>>, 0)
        ELSE
            Response(IF post = "sent" THEN 200 ELSE 500,
                     cfg, polled.gets, polled.fields, 1)

\* the web app with ADMIN_PASSWORD = admin before any /test request
NoRequest(admin) ==
    [admin |-> admin, pw |-> "", doc |-> Absent,
     did |-> Response(0, NoConfig, <<>>, <<>>, 0)]

\* the configuration documents a /test request can find
WebConfigObjects ==
    {[k \in K |-> IF k = "discord_webhook" THEN h ELSE b[k]] :
        K \in SUBSET {"bch_base", "xec_base", "discord_webhook"},
        b \in [{"bch_base", "xec_base"} ->
                 {JString(""), JString(" "), JString("u/"), JNumber(1)}],
        h \in {JString(" "), JString("h")}}

WebConfigDocs ==
    {Absent, Garbage} \cup {Document(JObject(m)) : m \in WebConfigObjects}

\* how the pools answer: all of them, none, all but one
WebReach ==
    LET tags == {ChainTags[i] : i \in 1..Len(ChainTags)}
    IN  {[c \in tags |-> "ok"], [c \in tags |-> "pool_failed"],
         [c \in tags |-> IF c = ChainTags[1] THEN "workers_failed" ELSE "ok"],
         [c \in tags |-> IF c = ChainTags[2] THEN "pool_failed" ELSE "ok"]}

\* one POST /test request, from its arrival to its response
TestWebhook ==
    /\ web.did.status = 0
    /\ \E pw \in {"secret", "wrong"}, doc \in WebConfigDocs,
          reach \in WebReach, post \in {"sent", "failed"} :
          web' = [admin |-> web.admin, pw |-> pw, doc |-> doc,
                  did |-> test_webhook(web.admin, pw, doc, reach, post)]
    /\ UNCHANGED <<pc, last_bestever, files, base_url, webhook, todo, changed,
                   fetches, err, last, log, elem, wfail>>

\* the response is sent: the request and the handler's locals are gone
Respond ==
    /\ web.did.status # 0
    /\ web' = NoRequest(web.admin)
    /\ UNCHANGED <<pc, last_bestever, files, base_url, webhook, todo, changed,
                   fetches, err, last, log, elem, wfail>>

Threads == DOMAIN pc

\* the watcher right after main has started the threads of `chains`, and the
\* web app with one of the passwords `admins`
InitAll(chains, found, admins) ==
    /\ pc = [c \in chains |-> "start"]
    /\ last_bestever = [c \in chains |-> PyDict(EmptyMap)]
    /\ files \in [{StateFile(c) : c \in chains} \cup {TmpFile(c) : c \in chains}
                    -> found \cup {Absent}]
    /\ \A c \in chains : files[TmpFile(c)] = Absent /\ files[StateFile(c)] \in found
    /\ base_url = [c \in chains |-> ""]
    /\ webhook = [c \in chains |-> ""]
    /\ todo = [c \in chains |-> 0]
    /\ changed = [c \in chains |-> FALSE]
    /\ fetches = [c \in chains |-> 0]
    /\ err = [c \in chains |-> FALSE]
    /\ last = [c \in chains |-> NoEntry]
    /\ log = [c \in chains |-> <<>>]
    /\ elem = [c \in chains |-> PyNone]
    /\ wfail = [c \in chains |-> FALSE]
    /\ web \in {NoRequest(a) : a \in admins}

\* the same with a web app that asks for no password
InitWith(chains, found) == InitAll(chains, found, {""})

(***************************************************************************)
(* Spec: one watcher (BCH) with the full pool; the History file it finds   *)
(* is absent or one a watcher wrote.                                       *)
(***************************************************************************)
Watcher == {ChainTags[1]}

PoolEnv ==
    [configs |-> Configs, readings |-> PoolReadings,
     lengths |-> 0..MaxDetails, io |-> BOOLEAN]

Init == InitWith(Watcher, CleanFiles)

Next == \E c \in Watcher : Step(c, PoolEnv)

Spec == Init /\ [][Next]_vars

(***************************************************************************)
(* SpecChains: the threads main starts, side by side, each with a small    *)
(* pool of its own.                                                        *)
(***************************************************************************)
Started == {ChainTags[i] : i \in 1..NumChains}

TinyEnv ==
    [configs |-> TinyConfigs, readings |-> TinyReadings,
     lengths |-> {1}, io |-> {TRUE}]

InitChains == InitWith(Started, {Absent})

NextChains == \E c \in Started : Step(c, TinyEnv)

SpecChains == InitChains /\ [][NextChains]_vars

(***************************************************************************)
(* SpecLive: one watcher with a small pool that is scheduled again and     *)
(* again: every call it makes returns or raises (the HTTP calls carry      *)
(* timeouts, the sleep ends).  It starts on any History file.              *)
(***************************************************************************)
LiveEnv ==
    [configs |-> Configs, readings |-> SmallReadings,
     lengths |-> 0..MaxDetails, io |-> BOOLEAN]

NextLive == \E c \in Watcher : Step(c, LiveEnv)

SpecLive ==
    /\ InitWith(Watcher, HistoryFiles)
    /\ [][NextLive]_vars
    /\ \A c \in Watcher : WF_vars(Step(c, LiveEnv))

(***************************************************************************)
(* SpecCrash: one watcher with a small pool whose process can be killed at *)
(* any point and started again; the files stay as the kill left them.      *)
(***************************************************************************)
Crash ==
    /\ pc' = [c \in Threads |-> "start"]
    /\ last_bestever' = [c \in Threads |-> PyDict(EmptyMap)]
    /\ base_url' = [c \in Threads |-> ""]
    /\ webhook' = [c \in Threads |-> ""]
    /\ todo' = [c \in Threads |-> 0]
    /\ changed' = [c \in Threads |-> FALSE]
    /\ fetches' = [c \in Threads |-> 0]
    /\ err' = [c \in Threads |-> FALSE]
    /\ last' = [c \in Threads |-> NoEntry]
    /\ log' = [c \in Threads |-> <<>>]
    /\ elem' = [c \in Threads |-> PyNone]
    /\ wfail' = [c \in Threads |-> FALSE]
    /\ UNCHANGED <<files, web>>

NextCrash == NextLive \/ Crash

SpecCrash == InitWith(Watcher, CleanFiles) /\ [][NextCrash]_vars

(***************************************************************************)
(* SpecAnyFile: one watcher with a small pool that can find any History    *)
(* file at start, also one damaged or edited from outside.                 *)
(***************************************************************************)
InitAnyFile == InitWith(Watcher, HistoryFiles)

SpecAnyFile == InitAnyFile /\ [][NextLive]_vars

(***************************************************************************)
(* Properties of one watcher.                                              *)
(***************************************************************************)
\* the latest iteration evaluated a worker: it had a name and an integer
\* best share, and the loop did not raise
Evaluated(e) == e.name # "" /\ e.val.t = "int" /\ e.act # "raise"

\* History h stores at least v for worker n
Holds(h, n, v) == IsDict(h) /\ n \in DOMAIN h.m /\ h.m[n].t = "int" /\ h.m[n].i >= v

\* C1: each evaluation of a worker attempts exactly one announcement (one
\* call of discord_post_ath, which posts when a webhook is configured) when
\* its value is strictly greater than the value stored in History, and none
\* when the value is equal or lower or the worker is new to History.
C1_AnnounceOnStrictIncrease ==
    [][\A c \in Threads :
          (pc[c] = "eval" /\ Evaluated(last'[c])) =>
             LET e == last'[c]
                 lb == last_bestever[c]
                 greater == /\ e.name \in DOMAIN lb.m
                            /\ e.val.i > lb.m[e.name].i
             IN  /\ (e.act \in Attempts) <=> greater
                 /\ greater => log'[c] = Append(log[c], e)
                 /\ ~greater => log'[c] = log[c]]_vars

\* a worker stored at 1 was read at 2 and announced
C1_Witness ==
    \E c \in Threads :
       /\ last[c].act = "sent"
       /\ last[c].prev = PyInt(1)
       /\ last[c].val = PyInt(2)

\* C2: the iteration that creates a worker's History entry attempts no
\* announcement, whatever the value, zero included; it stores the value.
C2_FirstSightingSilent ==
    [][\A c \in Threads :
          pc[c] = "eval" =>
             \A n \in (DOMAIN last_bestever'[c].m) \ (DOMAIN last_bestever[c].m) :
                /\ log'[c] = log[c]
                /\ last'[c].act = "baseline"
                /\ last'[c].name = n
                /\ last_bestever'[c].m[n] = last'[c].val]_vars

\* a new worker reporting zero was given the baseline zero
C2_Witness ==
    \E c \in Threads :
       /\ last[c].act = "baseline"
       /\ last[c].val = PyInt(0)
       /\ Holds(last_bestever[c], last[c].name, 0)

\* C3: after the load at start, every step of a watcher keeps every
\* identifier of the in-memory History and never lowers a stored value.
C3_HistoryGrows ==
    [][\A c \in Threads :
          pc[c] # "start" =>
             \A n \in DOMAIN last_bestever[c].m :
                Holds(last_bestever'[c], n, last_bestever[c].m[n].i)]_vars

\* a value below the stored one was read and changed nothing
C3_Witness ==
    \E c \in Threads :
       /\ last[c].act = "none"
       /\ last[c].val.i < last[c].prev.i
       /\ last_bestever[c].m[last[c].name] = last[c].prev

\* the announcements of the current cycle whose send failed
FailedSends(c) == {i \in 1..Len(log[c]) : log[c][i].act = "failed"}

C6_EmptyBaseSkips ==
    [][\A c \in Threads :
          pc[c] = "poll" =>
             /\ base_url'[c] = "" =>
                   /\ pc'[c] = "sleep"
                   /\ fetches'[c] = 0 /\ log'[c] = <<>> /\ ~err'[c]
                   /\ last_bestever'[c] = last_bestever[c]
                   /\ files' = files
             /\ base_url'[c] # "" => fetches'[c] >= 1]_vars

\* a watcher holding a History sleeps after a skipped cycle
C6_Witness ==
    \E c \in Threads :
       /\ pc[c] = "sleep" /\ base_url[c] = "" /\ fetches[c] = 0
       /\ DOMAIN last_bestever[c].m # {}

\* C10: what a completed save wrote loads back as exactly the mapping that
\* was saved: in the temporary file before the rename, in the History file
\* after it.
C10_SaveLoadRoundTrip ==
    \A c \in Threads :
       /\ pc[c] = "replace" =>
             LoadHistory(files[TmpFile(c)]) = last_bestever[c]
       /\ (pc[c] = "sleep" /\ changed[c] /\ ~err[c]) =>
             LoadHistory(files[StateFile(c)]) = last_bestever[c]

\* a mapping of two workers was saved
C10_Witness ==
    \E c \in Threads :
       /\ pc[c] = "sleep" /\ changed[c] /\ ~err[c]
       /\ Cardinality(DOMAIN last_bestever[c].m) = 2

(***************************************************************************)
(* Properties of the threads side by side (SpecChains).                    *)
(***************************************************************************)
\* a step leaves thread d alone: its position, its History, its locals and
\* its two files
Untouched(d) ==
    /\ pc'[d] = pc[d]
    /\ last_bestever'[d] = last_bestever[d]
    /\ base_url'[d] = base_url[d] /\ webhook'[d] = webhook[d]
    /\ todo'[d] = todo[d] /\ changed'[d] = changed[d]
    /\ fetches'[d] = fetches[d] /\ err'[d] = err[d]
    /\ last'[d] = last[d] /\ log'[d] = log[d] /\ elem'[d] = elem[d]
    /\ wfail'[d] = wfail[d]
    /\ files'[StateFile(d)] = files[StateFile(d)]
    /\ files'[TmpFile(d)] = files[TmpFile(d)]

\* C5: every step is the step of one watcher and leaves every other
\* watcher's History, History file, announcements and position as they
\* were, whatever the step is (a failed fetch included); and whatever the
\* others do, each watcher has its next step to take.
C5_ChainsIndependent ==
    /\ [][\E c \in Started : \A d \in Started \ {c} : Untouched(d)]_vars
    /\ [](\A d \in Started : ENABLED Step(d, TinyEnv))

\* while one watcher's worker fetch failed, another announced an increase
\* and saved its History
C5_Witness ==
    \E c \in Threads, d \in Threads :
       /\ c # d
       /\ pc[c] = "sleep" /\ err[c] /\ fetches[c] = 1
       /\ pc[d] = "sleep" /\ ~err[d] /\ log[d] # <<>>
       /\ LoadHistory(files[StateFile(d)]) = last_bestever[d]

(***************************************************************************)
(* Progress of a watcher (SpecLive).                                       *)
(***************************************************************************)
\* C7: wherever a watcher stands, it reaches the sleep of its cycle, and
\* every sleep is followed by the next poll: no failure ends the thread.
C7_CycleAlwaysCompletes ==
    \A c \in Watcher :
       /\ (pc[c] # "sleep") ~> (pc[c] = "sleep")
       /\ (pc[c] = "sleep") ~> (pc[c] = "poll")

\* a cycle whose History write failed reached its sleep
C7_Witness ==
    \E c \in Threads : pc[c] = "sleep" /\ err[c] /\ changed[c] /\ todo[c] = 0
                       /\ last[c].act # "raise"

(***************************************************************************)
(* The load at start (SpecAnyFile) and the save under crashes (SpecCrash). *)
(***************************************************************************)
\* a mapping from identifiers to integers
IntMapping(h) == IsDict(h) /\ \A n \in DOMAIN h.m : h.m[n].t = "int"

\* the file holds {"last_bestever": {identifier: integer, ...}}
WellFormed(content) ==
    /\ content.f = "json"
    /\ content.doc.j = "object"
    /\ "last_bestever" \in DOMAIN content.doc.m
    /\ content.doc.m["last_bestever"].j = "object"
    /\ \A n \in DOMAIN content.doc.m["last_bestever"].m :
          content.doc.m["last_bestever"].m[n].j = "number"

\* C8 as claimed: the load at start yields a mapping from identifiers to
\* integers, the empty one when the file is absent, unreadable or not of
\* the form {"last_bestever": {identifier: integer}}.
C8_AsClaimed ==
    [][\A c \in Threads :
          pc[c] = "start" =>
             /\ IntMapping(last_bestever'[c])
             /\ ~WellFormed(files[StateFile(c)]) =>
                   last_bestever'[c] = PyDict(EmptyMap)]_vars

\* C9: no step, a kill of the process included, leaves the History file
\* half-written: the file changes only in the rename, and then to the
\* complete mapping that was being saved.
C9_SaveIsAtomic ==
    [][\A c \in Threads :
          /\ files'[StateFile(c)] # Truncated
          /\ files'[StateFile(c)] # files[StateFile(c)] =>
                /\ pc[c] = "replace"
                /\ files'[StateFile(c)] = DumpHistory(last_bestever[c])]_vars

\* the process was killed while the temporary file was being written, and
\* the History file still holds the mapping saved before
C9_Witness ==
    \E c \in Threads :
       /\ pc[c] = "start"
       /\ files[TmpFile(c)] = Truncated
       /\ WellFormed(files[StateFile(c)])
       /\ LoadHistory(files[StateFile(c)]) = PyDict([n \in {"w1"} |-> PyInt(0)])

(***************************************************************************)
(* SpecRecord: one watcher whose lists hold one worker record, the record  *)
(* itself observed: every choice of candidate keys and of their values.    *)
(***************************************************************************)
\* what a candidate key can carry: null, a number, a string that is none
RecordValues == {PyNone, PyStr("abc")} \cup {PyInt(i) : i \in 0..MaxShare}

\* the reading of w together with w
Read(w) ==
    [isdict |-> Extract(w).isdict, name |-> Extract(w).name,
     best |-> Extract(w).best, w |-> w]

RecordReadings == {Read(w) : w \in Elements(SmallNames, RecordValues)}

RecordEnv ==
    [configs |-> TinyConfigs, readings |-> RecordReadings,
     lengths |-> {1}, io |-> {TRUE}]

NextRecord == \E c \in Watcher : Step(c, RecordEnv)

SpecRecord == InitWith(Watcher, {Absent}) /\ [][NextRecord]_vars

\* w is a named worker object
NamedWorker(w) == IsDict(w) /\ RawName(w) # ""

\* the candidate keys of w that are present with a non-null value
Carrying(w) == {i \in 1..Len(CandidateKeys) : DictGet(w, CandidateKeys[i]) # PyNone}

\* C11 as claimed: a named worker new to History whose only best-share
\* value is zero, under whichever candidate key, gets the History entry zero
\* and marks the cycle changed.
C11_AsClaimed ==
    [][\A c \in Threads :
          (/\ pc[c] = "eval"
           /\ NamedWorker(elem'[c])
           /\ RawName(elem'[c]) \notin DOMAIN last_bestever[c].m
           /\ Carrying(elem'[c]) # {}
           /\ \A i \in Carrying(elem'[c]) :
                 DictGet(elem'[c], CandidateKeys[i]) = PyInt(0))
          => /\ Holds(last_bestever'[c], RawName(elem'[c]), 0)
             /\ changed'[c]]_vars

(***************************************************************************)
(* SpecWeb: one watcher with a small pool, and the web app answering       *)
(* /test requests beside it.                                               *)
(***************************************************************************)
InitWeb == InitAll(Watcher, CleanFiles, {"", "secret"})

NextWeb == (\E c \in Watcher : Step(c, TinyEnv)) \/ TestWebhook \/ Respond

SpecWeb == InitWeb /\ [][NextWeb]_vars

\* the request loaded the configuration
Loaded == web.did.status \notin {0, 401}

\* key k is missing from the document, or the document is absent or malformed
Missing(doc, k) ==
    ~(CanDecode(doc) /\ doc.doc.j = "object" /\ k \in DOMAIN doc.doc.m)

\* C12 as claimed: the configuration the status operation loads has six
\* string fields, the empty string for a missing key, no trailing slash on
\* a base URL, and the same disabled chains as the watcher's load of the
\* same document.
C12_AsClaimed ==
    Loaded =>
       \A k \in ConfigKeys :
          /\ web.did.cfg[k].t = "str"
          /\ Missing(web.doc, k) => web.did.cfg[k].s = ""
          /\ k \in BaseKeys =>
                /\ RStripSlash(web.did.cfg[k].s) = web.did.cfg[k].s
                /\ (web.did.cfg[k].s = "") <=> (load_config(web.doc)[k] = "")

\* the chains the configuration document configures: those whose base URL
\* is not empty in the Configuration loaded from it
Configured(doc) ==
    {ChainTags[i] : i \in {j \in 1..Len(ChainTags) :
                              load_config(doc)[BaseKey(ChainTags[j])] # ""}}

\* the chains named in a sequence of GETs or of fields
ChainsOf(q) == {q[i].chain : i \in 1..Len(q)}

\* C13 as claimed: a /test request touches no History; authorized, with a
\* sink URL and a configured chain, it fetches exactly the configured
\* chains and makes one POST with one entry for each of them; with a wrong
\* secret it makes no fetch and no POST.
C13_AsClaimed ==
    [][(web.did.status = 0 /\ web'.did.status # 0) =>
          /\ files' = files /\ last_bestever' = last_bestever
          /\ (/\ check_password(web'.admin, web'.pw)
              /\ load_config(web'.doc)["discord_webhook"] # ""
              /\ Configured(web'.doc) # {})
             => /\ web'.did.posts = 1
                /\ ChainsOf(web'.did.gets) = Configured(web'.doc)
                /\ ChainsOf(web'.did.fields) = Configured(web'.doc)
                /\ Len(web'.did.fields) = Cardinality(Configured(web'.doc))
          /\ ~check_password(web'.admin, web'.pw)
             => web'.did.gets = <<>> /\ web'.did.posts = 0]_vars

\* the value of the first candidate key of w present with a non-null value
FirstCarried(w) ==
    DictGet(w, CandidateKeys[CHOOSE i \in Carrying(w) :
                                \A j \in Carrying(w) : i <= j])

\* C14 as claimed: a named worker is evaluated with the integer of its first
\* candidate key that is present and not null, and is skipped only when no
\* candidate key is present and not null or that value is no integer.
C14_AsClaimed ==
    [][\A c \in Threads :
          (pc[c] = "eval" /\ NamedWorker(elem'[c])) =>
             IF Carrying(elem'[c]) = {} \/ ~IntOk(FirstCarried(elem'[c]))
             THEN last'[c].act = "skip"
             ELSE /\ last'[c].act # "skip"
                  /\ last'[c].val = PyInt(IntOf(FirstCarried(elem'[c])))]_vars

(***************************************************************************)
(* Properties of aborted and of completed cycles (Spec).                   *)
(***************************************************************************)
\* the step in which thread c's fetch or evaluation raises
Aborts(c) == pc[c] \in {"poll", "eval"} /\ ~err[c] /\ err'[c]

\* C15 as claimed: a cycle that a failed fetch or a malformed record aborts
\* has produced nothing: the in-memory History was not changed in it (the
\* `changed` flag, set with every update, is down), no announcement was
\* attempted in it, and the History file is as it was.
C15_AsClaimed ==
    [][\A c \in Threads :
          Aborts(c) =>
             /\ ~changed'[c]
             /\ last_bestever'[c] = last_bestever[c]
             /\ log'[c] = <<>>
             /\ files' = files]_vars

\* the step in which thread c's History write fails
WriteFails(c) == pc[c] \in {"open", "dump", "replace"} /\ err'[c]

\* the step that ends a cycle of thread c marked changed, after a History
\* write of an earlier cycle has failed
EndsChangedAfterFailure(c) ==
    pc[c] # "sleep" /\ pc'[c] = "sleep" /\ changed'[c] /\ wfail[c]

C17_AttemptsInListOrder ==
    [][\A c \in Threads :
          pc[c] = "eval" =>
             LET e == last'[c] IN
             /\ log'[c] = IF e.act \in Attempts THEN Append(log[c], e) ELSE log[c]
             /\ (/\ Evaluated(e)
                 /\ e.name \in DOMAIN last_bestever[c].m
                 /\ e.val.i > last_bestever[c].m[e.name].i) => e.act \in Attempts
             /\ e.act = "failed" =>
                   /\ ~err'[c]
                   /\ todo'[c] = todo[c] - 1
                   /\ pc'[c] = IF todo[c] > 1 THEN "eval" ELSE "open"]_vars

\* in one cycle the send for one worker failed and the send for the next
\* worker of the list was made
C17_Witness ==
    \E c \in Threads :
       /\ Len(log[c]) = 2
       /\ log[c][1].act = "failed" /\ log[c][2].act = "sent"
       /\ log[c][1].name # log[c][2].name

\* the increases of the current cycle met with an empty webhook
SilentIncreases(c) == {i \in 1..Len(log[c]) : log[c][i].act = "noop"}

C19_AsClaimed ==
    \A c \in Threads :
       (pc[c] = "sleep" /\ ~wfail[c]) =>
          LoadHistory(files[StateFile(c)]) = last_bestever[c]

\* the greater of two integers
Max(a, b) == IF a >= b THEN a ELSE b

\* C20: the stored value of a worker is the running maximum: the load sets
\* it, each evaluation of the worker replaces it by the greater of itself
\* and the evaluated value (the first evaluation of a new worker by that
\* value), and no other step touches it; an evaluation attempts an
\* announcement exactly when its value is above the stored maximum.
C20_StoredIsRunningMax ==
    [][\A c \in Threads :
          pc[c] # "start" =>
             LET e == last'[c]
                 lb == last_bestever[c]
             IN  IF pc[c] = "eval" /\ Evaluated(e) THEN
                     /\ last_bestever'[c] =
                           DictSet(lb, e.name,
                                   IF e.name \in DOMAIN lb.m
                                   THEN PyInt(Max(lb.m[e.name].i, e.val.i))
                                   ELSE e.val)
                     /\ (e.act \in Attempts) <=>
                           (e.name \in DOMAIN lb.m /\ e.val.i > lb.m[e.name].i)
                 ELSE last_bestever'[c] = lb]_vars

\* a value above zero but below the stored maximum was evaluated and
\* neither stored nor announced
C20_Witness ==
    \E c \in Threads :
       /\ last[c].act = "none"
       /\ last[c].val.t = "int" /\ last[c].val.i > 0
       /\ last[c].prev.t = "int" /\ last[c].val.i < last[c].prev.i
       /\ last_bestever[c].m[last[c].name] = last[c].prev
       /\ log[c] = <<>>

====
